---- MODULE Spec2Model ----
(***************************************************************************)
(* Model of the Linux timerfd one-shot timer (src/src/oneshot/timer_fd.rs) *)
(* together with the kernel timer, the epoll edge and the reactor's        *)
(* readiness cell that TimerFd::poll talks to.                             *)
(*                                                                         *)
(* Time is counted in clock units.  It only advances while the timerfd is  *)
(* armed: while it is disarmed the passage of time changes nothing.        *)
(***************************************************************************)
EXTENDS Integers, FiniteSets, Sequences, TLC

\* ---- bounds -------------------------------------------------------------
MaxDur == 2          \* largest timeout handed to new / restart
NumWakers == 2       \* number of distinct task wakers
MaxRestarts == 1     \* number of restart calls in one behaviour

Durations == 0..MaxDur
Wakers == 1..NumWakers
NoWaker == 0

VARIABLES
    debug_assertions, \* build flavour: are debug_assert! checks compiled in
    life,             \* "unborn", "alive", "dropped", "panicked"
    state,            \* TimerFd.state : State::Init(timeout) | State::Running(is_finished)
    fd,               \* the timerfd behind RawTimer: open, it_value left, expiration count
    epoll,            \* an edge event for the fd sits in the kernel's ready list
    io,               \* PollEvented<RawTimer>: reactor readiness, cached readiness, reader waker
    woken,            \* wakers that were woken and whose task was not polled since
    pc,               \* position of the running TimerFd::poll call ("idle" = none)
    ctx,              \* waker of the task::Context of the running poll call
    result,           \* what the last completed poll call returned
    armDur,           \* history: it_value of the last arming (first poll or restart)
    armedBy,          \* history: "none", "poll" or "restart"
    elapsed,          \* history: clock units since the last arming
    reported,         \* history: polls that returned Ready since the last arming
    cancelled,        \* history: cancel() hit a Running timer and no restart followed
    disturbed,        \* history: cancel() or restart() was called at all
    nrestart,         \* history: number of restart calls
    lastWaker,        \* history: waker last handed in, by poll's Context or by restart
    revived,          \* history: the last restart of a running timer followed a cancel
    requested,        \* history: timeout last handed in, by new or by restart
    opened,           \* history: timerfd_create calls
    closed            \* history: close calls on the fd

vars == <<debug_assertions, life, state, fd, epoll, io, woken, pc, ctx, result,
          armDur, armedBy, elapsed, reported, cancelled, disturbed, nrestart,
          lastWaker, revived, requested, opened, closed>>

acct == <<lastWaker, revived, requested, opened, closed>>

hist == <<armDur, armedBy, elapsed, reported, cancelled, disturbed, nrestart>>

\* ---- State ---------------------------------------------------------------
StateInit(timeout) == [tag |-> "Init", timeout |-> timeout]
StateRunning(is_finished) == [tag |-> "Running", is_finished |-> is_finished]
NoState == [tag |-> "None"]

\* ---- RawTimer ------------------------------------------------------------
NoFd == [open |-> FALSE, remaining |-> 0, ticks |-> 0]

\* variant: the descriptor comes back already counting down
RawTimer_new_armed == [open |-> TRUE, remaining |-> 1, ticks |-> 0]

\* timerfd_create: a fresh descriptor is disarmed and has no expirations
RawTimer_new == [open |-> TRUE, remaining |-> 0, ticks |-> 0]

\* variant: the new setting keeps the expirations counted so far
RawTimer_set_keeps_ticks(f, it_value) == [f EXCEPT !.remaining = it_value]

\* timerfd_settime: replaces the deadline and forgets earlier expirations;
\* a zero it_value disarms
RawTimer_set(f, it_value) == [f EXCEPT !.remaining = it_value, !.ticks = 0]

\* variant: the read leaves the expiration count in place
RawTimer_read_no_consume(f) == [value |-> f.ticks, fd |-> f]

\* read(2) on the non-blocking fd: the expiration count, 0 on WouldBlock;
\* a successful read resets the count
RawTimer_read(f) == [value |-> f.ticks, fd |-> [f EXCEPT !.ticks = 0]]

\* variant: the deadline is set one clock unit short
set_timer_value_short(f, timeout) == RawTimer_set(f, timeout - 1)

\* it_interval is zeroed: one shot
set_timer_value(f, timeout) == RawTimer_set(f, timeout)

\* ---- PollEvented ---------------------------------------------------------
NoIo == [readiness |-> FALSE, cached |-> FALSE, waker |-> NoWaker]

\* PollEvented::poll_read_ready(cx, readable): answers from the cached
\* readiness, else takes the reactor's readiness, else parks the waker
poll_read_ready(i, w) ==
    IF i.cached \/ i.readiness
    THEN [io |-> [i EXCEPT !.cached = TRUE, !.readiness = FALSE], ready |-> TRUE]
    ELSE [io |-> [i EXCEPT !.waker = w], ready |-> FALSE]

\* variant: the cached readiness is dropped without polling again, so no
\* waker is parked
clear_read_ready_no_park(i, w) == [io |-> [i EXCEPT !.cached = FALSE], ready |-> FALSE]

\* PollEvented::clear_read_ready(cx, readable): drops the cached readiness and
\* polls again so that the waker is parked; wakes the task if ready again
clear_read_ready(i, w) == poll_read_ready([i EXCEPT !.cached = FALSE], w)

\* ---- Oneshot for TimerFd --------------------------------------------------
is_ticking(s) ==
    IF s.tag = "Init" THEN FALSE
    ELSE IF s.tag = "Running" THEN ~s.is_finished
    ELSE FALSE

is_expired(s) ==
    IF s.tag = "Init" THEN FALSE
    ELSE IF s.tag = "Running" THEN s.is_finished
    ELSE FALSE

\* variant: the zero check is missing
ZeroTimeoutAsserts_off(timeout) == FALSE

\* debug_assert!(!(secs == 0 && nanos == 0))
ZeroTimeoutAsserts(timeout) == debug_assertions /\ timeout = 0

\* variant: construction already starts the countdown
new_eager(timeout) == [fd |-> set_timer_value(RawTimer_new, timeout), state |-> StateInit(timeout)]

new(timeout) == [fd |-> RawTimer_new, state |-> StateInit(timeout)]

\* variant: cancelling leaves the state machine in Running whatever it was in
cancel_marks_running(s, f) == [fd |-> RawTimer_set(f, 0), state |-> StateRunning(FALSE)]

\* variant: cancelling remembers what is left of the countdown for a later poll
cancel_pausing(s, f) == [fd |-> RawTimer_set(f, 0), state |-> StateInit(f.remaining)]

\* variant: cancelling gives the descriptor back
cancel_closing(s, f) == [fd |-> NoFd, state |-> s]

cancel(s, f) == [fd |-> RawTimer_set(f, 0), state |-> s]

\* variant: before the first poll the new timeout is dropped
restart_init_kept(s, f, new_value) ==
    IF s.tag = "Init"
    THEN [fd |-> f, state |-> s]
    ELSE [fd |-> set_timer_value(f, new_value), state |-> StateRunning(FALSE)]

\* variant: a running timer is put back to Init, to be armed by the next poll
restart_via_init(s, f, new_value) == [fd |-> f, state |-> StateInit(new_value)]

\* variant: a running timer only gets its flag cleared, the fd is left alone
restart_no_rearm(s, f, new_value) ==
    IF s.tag = "Init"
    THEN [fd |-> f, state |-> StateInit(new_value)]
    ELSE [fd |-> f, state |-> StateRunning(FALSE)]

restart(s, f, new_value) ==
    IF s.tag = "Init"
    THEN [fd |-> f, state |-> StateInit(new_value)]
    ELSE [fd |-> set_timer_value(f, new_value), state |-> StateRunning(FALSE)]

\* variant: once Ready was reported, an empty read still answers Ready
ReadOutcome_sticky(n) == IF n = 0 /\ reported = 0 THEN "Pending" ELSE "Ready"

\* variant: a readable fd counts as expired whatever read() returned
ReadOutcome_trusting(n) == "Ready"

\* the match on read() in poll
ReadOutcome(n) == IF n = 0 THEN "Pending" ELSE "Ready"

Alive == life = "alive"
Idle == Alive /\ pc = "idle"
Held == IF fd.open THEN 1 ELSE 0

Init ==
    /\ debug_assertions \in BOOLEAN
    /\ life = "unborn"
    /\ state = NoState
    /\ fd = NoFd
    /\ epoll = FALSE
    /\ io = NoIo
    /\ woken = {}
    /\ pc = "idle"
    /\ ctx = NoWaker
    /\ result = "None"
    /\ armDur = 0
    /\ armedBy = "none"
    /\ elapsed = 0
    /\ reported = 0
    /\ cancelled = FALSE
    /\ disturbed = FALSE
    /\ nrestart = 0
    /\ lastWaker = NoWaker
    /\ revived = FALSE
    /\ requested = 0
    /\ opened = 0
    /\ closed = 0

\* ---- operations of the caller ---------------------------------------------
New(timeout) ==
    /\ life = "unborn"
    /\ IF ZeroTimeoutAsserts(timeout)
       THEN /\ life' = "panicked"
            /\ UNCHANGED <<state, fd, requested, opened>>
       ELSE /\ life' = "alive"
            /\ state' = new(timeout).state
            /\ fd' = new(timeout).fd
            /\ requested' = timeout
            /\ opened' = opened + 1
    /\ UNCHANGED <<debug_assertions, epoll, io, woken, pc, ctx, result, hist,
                   lastWaker, revived, closed>>

Cancel ==
    /\ Idle
    /\ fd' = cancel(state, fd).fd
    /\ state' = cancel(state, fd).state
    /\ cancelled' = (cancelled \/ state.tag = "Running")
    /\ disturbed' = TRUE
    /\ UNCHANGED <<debug_assertions, life, epoll, io, woken, pc, ctx, result,
                   armDur, armedBy, elapsed, reported, nrestart, acct>>

Restart(new_value, waker) ==
    /\ Idle
    /\ nrestart < MaxRestarts
    /\ IF ZeroTimeoutAsserts(new_value)
       THEN /\ life' = "panicked"
            /\ UNCHANGED <<state, fd, hist, lastWaker, revived, requested>>
       ELSE /\ life' = life
            /\ fd' = restart(state, fd, new_value).fd
            /\ state' = restart(state, fd, new_value).state
            /\ nrestart' = nrestart + 1
            /\ disturbed' = TRUE
            /\ lastWaker' = waker
            /\ requested' = new_value
            /\ IF state.tag = "Running"
               THEN /\ armDur' = new_value
                    /\ armedBy' = "restart"
                    /\ elapsed' = 0
                    /\ reported' = 0
                    /\ cancelled' = FALSE
                    /\ revived' = cancelled
               ELSE UNCHANGED <<armDur, armedBy, elapsed, reported, cancelled, revived>>
    /\ UNCHANGED <<debug_assertions, epoll, io, woken, pc, ctx, result, opened, closed>>

\* variant: the instance goes away without closing its fd
Drop_leaking ==
    /\ Idle
    /\ life' = "dropped"
    /\ state' = NoState
    /\ UNCHANGED <<debug_assertions, fd, epoll, io, woken, pc, ctx, result, hist, acct>>

Drop ==
    /\ Idle
    /\ life' = "dropped"
    /\ state' = NoState
    /\ fd' = NoFd
    /\ epoll' = FALSE
    /\ io' = NoIo
    /\ closed' = closed + 1
    /\ UNCHANGED <<debug_assertions, woken, pc, ctx, result, hist,
                   lastWaker, revived, requested, opened>>

\* ---- Future::poll ----------------------------------------------------------
PollBegin(waker) ==
    /\ Idle
    /\ pc' = "loop"
    /\ ctx' = waker
    /\ woken' = woken \ {waker}
    /\ lastWaker' = waker
    /\ UNCHANGED <<debug_assertions, life, state, fd, epoll, io, result, hist,
                   revived, requested, opened, closed>>

\* State::Init(timeout) arm of the loop
PollArm ==
    /\ Alive /\ pc = "loop" /\ state.tag = "Init"
    /\ fd' = set_timer_value(fd, state.timeout)
    /\ state' = StateRunning(FALSE)
    /\ armDur' = state.timeout
    /\ armedBy' = "poll"
    /\ elapsed' = 0
    /\ reported' = 0
    /\ UNCHANGED <<debug_assertions, life, epoll, io, woken, pc, ctx, result,
                   cancelled, disturbed, nrestart, acct>>

\* State::Running(_) arms of the loop, up to and including poll_read_ready
PollReadReady ==
    /\ Alive /\ pc = "loop" /\ state.tag = "Running"
    /\ IF state.is_finished
       THEN /\ pc' = "idle"
            /\ result' = "Ready"
            /\ reported' = reported + 1
            /\ UNCHANGED io
       ELSE LET r == poll_read_ready(io, ctx) IN
            /\ io' = r.io
            /\ IF r.ready
               THEN pc' = "clear" /\ UNCHANGED result
               ELSE pc' = "idle" /\ result' = "Pending"
            /\ UNCHANGED reported
    /\ UNCHANGED <<debug_assertions, life, state, fd, epoll, woken, ctx,
                   armDur, armedBy, elapsed, cancelled, disturbed, nrestart, acct>>

PollClear ==
    /\ Alive /\ pc = "clear"
    /\ LET r == clear_read_ready(io, ctx) IN
       /\ io' = r.io
       /\ woken' = IF r.ready THEN woken \cup {ctx} ELSE woken
    /\ pc' = "read"
    /\ UNCHANGED <<debug_assertions, life, state, fd, epoll, ctx, result, hist, acct>>

PollRead ==
    /\ Alive /\ pc = "read"
    /\ LET r == RawTimer_read(fd) IN
       /\ fd' = r.fd
       /\ result' = ReadOutcome(r.value)
       /\ reported' = IF ReadOutcome(r.value) = "Ready" THEN reported + 1 ELSE reported
    /\ pc' = "idle"
    /\ UNCHANGED <<debug_assertions, life, state, epoll, io, woken, ctx,
                   armDur, armedBy, elapsed, cancelled, disturbed, nrestart, acct>>

\* ---- kernel and reactor ----------------------------------------------------
\* one clock unit passes on the armed timer; on reaching the deadline the
\* one-shot timer disarms, counts one expiration and raises the epoll edge
Tick ==
    /\ fd.open /\ fd.remaining > 0
    /\ fd' = [fd EXCEPT !.remaining = fd.remaining - 1,
                        !.ticks = IF fd.remaining = 1 THEN fd.ticks + 1 ELSE fd.ticks]
    /\ epoll' = (epoll \/ fd.remaining = 1)
    /\ elapsed' = elapsed + 1
    /\ UNCHANGED <<debug_assertions, life, state, io, woken, pc, ctx, result,
                   armDur, armedBy, reported, cancelled, disturbed, nrestart, acct>>

\* the reactor turns: epoll_wait reports the edge only if the fd is still
\* readable; the readiness is stored and the parked reader waker is woken
Dispatch ==
    /\ epoll
    /\ epoll' = FALSE
    /\ IF fd.open /\ fd.ticks > 0
       THEN /\ io' = [io EXCEPT !.readiness = TRUE, !.waker = NoWaker]
            /\ woken' = IF io.waker # NoWaker THEN woken \cup {io.waker} ELSE woken
       ELSE UNCHANGED <<io, woken>>
    /\ UNCHANGED <<debug_assertions, life, state, fd, pc, ctx, result, hist, acct>>

\* readiness without an expiration behind it (false positive of the reactor)
SpuriousReady ==
    /\ Alive
    /\ ~io.readiness
    /\ io' = [io EXCEPT !.readiness = TRUE, !.waker = NoWaker]
    /\ woken' = IF io.waker # NoWaker THEN woken \cup {io.waker} ELSE woken
    /\ UNCHANGED <<debug_assertions, life, state, fd, epoll, pc, ctx, result, hist, acct>>

Next ==
    \/ \E timeout \in Durations : New(timeout)
    \/ Cancel
    \/ \E new_value \in Durations, waker \in Wakers : Restart(new_value, waker)
    \/ Drop
    \/ \E waker \in Wakers : PollBegin(waker)
    \/ PollArm
    \/ PollReadReady
    \/ PollClear
    \/ PollRead
    \/ Tick
    \/ Dispatch
    \/ SpuriousReady

Spec == Init /\ [][Next]_vars

\* fairness: the clock runs, the reactor turns, a poll call runs to its
\* return, and the scheduler polls a task that was woken
LiveSpec ==
    /\ Spec
    /\ WF_vars(Tick)
    /\ WF_vars(Dispatch)
    /\ WF_vars(PollArm)
    /\ WF_vars(PollReadReady)
    /\ WF_vars(PollClear)
    /\ WF_vars(PollRead)
    /\ \A waker \in Wakers : SF_vars(waker \in woken /\ PollBegin(waker))

\* ---- properties --------------------------------------------------------------
\* a step on which a poll call returns
PollReturns == pc # "idle" /\ pc' = "idle"
ReturnsReady == PollReturns /\ result' = "Ready"

\* C1: poll returns Ready only when this poll's read consumed a non-zero
\* expiration count of the current arming (or Running(true) was recorded);
\* when the fd was reported readable but read yields 0, poll returns Pending,
\* the state stays Running(false) and the timer setting is not touched.
C1_ReadyOnlyOnExpiration ==
    [][ /\ ReturnsReady =>
             \/ state = StateRunning(TRUE)
             \/ /\ pc = "read" /\ fd.ticks > 0 /\ fd'.ticks = 0
                /\ armDur > 0 /\ elapsed >= armDur
        /\ (pc = "read" /\ pc' = "idle" /\ fd.ticks = 0) =>
             /\ result' = "Pending"
             /\ state = StateRunning(FALSE) /\ state' = StateRunning(FALSE)
             /\ fd' = fd
      ]_vars

\* the reactor said readable, the edge is cleared, the armed timer has not
\* expired: the read about to happen yields 0
C1_Witness == pc = "read" /\ fd.ticks = 0 /\ fd.remaining > 0 /\ state = StateRunning(FALSE)

\* C2: between two armings (first poll, restart of a running timer) at most
\* one poll returns Ready, whatever readiness notifications arrive.
C2_AtMostOneReady == reported <= 1

\* Ready was reported and a later poll of the same arming returned Pending
C2_Witness == reported = 1 /\ pc = "idle" /\ result = "Pending" /\ Alive

\* C3: a timer with timeout > 0 that was polled and is neither cancelled nor
\* restarted eventually has a poll return Ready, and no poll returns Ready
\* before the timeout has elapsed since the first poll armed it.
C3_EventualCompletion ==
    /\ [][ReturnsReady /\ armedBy = "poll" => armDur > 0 /\ elapsed >= armDur]_vars
    /\ [](  (Alive /\ state.tag = "Running" /\ armDur > 0 /\ ~disturbed)
         => <>(reported >= 1 \/ disturbed \/ ~Alive))

\* the undisturbed timer completed exactly at its deadline
C3_Witness ==
    /\ Alive /\ ~disturbed /\ armedBy = "poll" /\ armDur = MaxDur
    /\ result = "Ready" /\ reported = 1 /\ elapsed = armDur

\* C4: is_expired() is false until a poll has returned Ready and true in the
\* state right after the poll that returns Ready.
C4_IsExpiredAfterReady ==
    [][ /\ ReturnsReady => is_expired(state')
        /\ is_expired(state') => reported' >= 1
      ]_vars

\* C5: is_ticking() is false in Init, true after the first poll returned
\* Pending, false once a poll has reported Ready (until a restart).
C5_IsTickingLifeCycle ==
    /\ (Alive /\ state.tag = "Init") => ~is_ticking(state)
    /\ (Idle /\ armedBy = "poll" /\ ~disturbed /\ result = "Pending" /\ reported = 0)
          => is_ticking(state)
    /\ (Alive /\ reported >= 1) => ~is_ticking(state)

\* C6: whenever the caller can ask (no poll call running), is_ticking()
\* implies that the OS timer is armed with a pending deadline; in particular
\* it is false after cancel() on a running timer.
C6_TickingImpliesArmed ==
    /\ (Idle /\ armDur > 0 /\ is_ticking(state)) => fd.remaining > 0
    /\ (Idle /\ cancelled) => ~is_ticking(state)

\* C7 as stated: an instance (built with a timeout > 0) holds no OS timer
\* resource until its first poll.
C7_NoResourceBeforeFirstPoll ==
    (Alive /\ state.tag = "Init" /\ state.timeout > 0) => Held = 0

\* C7 amended: new creates the one OS timer resource without arming it: no
\* resource before new, exactly one while the instance lives, and until the
\* first poll that resource is disarmed with no expiration counted.
C7_ResourceCreatedUnarmed ==
    /\ life = "unborn" => Held = 0
    /\ Alive => Held = 1
    /\ (Alive /\ state.tag = "Init") =>
          fd.open /\ fd.remaining = 0 /\ fd.ticks = 0 /\ ~epoll

\* fresh from new: Init with the resource already held
C7_Witness == Alive /\ state.tag = "Init" /\ ~disturbed /\ Held = 1

\* C8: the timer is unarmed while in Init; Init is left only inside a poll
\* call, which arms with the timeout then held in Init, moves to
\* Running(false) and goes on to the readiness check; no poll returns in Init.
C8_LazyArming ==
    [][ /\ state'.tag = "Init" => fd'.remaining = 0 /\ fd'.ticks = 0
        /\ (state.tag = "Init" /\ state'.tag # "Init" /\ life' = "alive") =>
             /\ pc = "loop" /\ pc' = "loop"
             /\ state' = StateRunning(FALSE)
             /\ fd'.remaining = state.timeout
        /\ PollReturns => state'.tag = "Running"
      ]_vars

\* the first poll has just armed with a timeout that restart put into Init
C8_Witness ==
    /\ pc = "loop" /\ state = StateRunning(FALSE) /\ armedBy = "poll"
    /\ nrestart = 1 /\ armDur > 0 /\ fd.remaining = armDur /\ elapsed = 0

\* C9: once cancel() hit a running timer, no poll returns Ready until restart.
C9_CancelWins == [][(cancelled /\ PollReturns) => result' # "Ready"]_vars

\* the timer had expired before the cancel, the readiness got through and
\* the poll after the cancel is about to read the fd
C9_Witness ==
    /\ cancelled /\ pc = "read" /\ armDur > 0 /\ elapsed >= armDur /\ reported = 0

\* C10: after restart(d2) of a running timer no poll returns Ready before d2
\* has elapsed since the restart, and with d2 > 0 a poll does return Ready
\* unless the timer is cancelled, restarted again or destroyed.
C10_RestartResetsDeadline ==
    /\ [][ReturnsReady /\ armedBy = "restart" => armDur > 0 /\ elapsed >= armDur]_vars
    /\ \A k \in 1..MaxRestarts :
         [](  (Alive /\ armedBy = "restart" /\ nrestart = k /\ armDur > 0 /\ ~cancelled)
           => <>(reported >= 1 \/ nrestart # k \/ cancelled \/ ~Alive))

\* a poll right after the restart found stale readiness: the new deadline is
\* pending and the read about to happen yields 0
C10_Witness ==
    /\ armedBy = "restart" /\ pc = "read" /\ elapsed = 0
    /\ fd.ticks = 0 /\ fd.remaining = armDur /\ armDur > 0

\* a step on which the reactor delivers the expiration and wakes a task
ExpirationWakes == epoll /\ ~epoll' /\ woken' # woken

\* C11: the waker woken when the expiration is delivered to a suspended task
\* is the one handed in last, by poll or by restart.
C11_MostRecentWakerWoken ==
    [][(Idle /\ ExpirationWakes) => woken' = woken \cup {lastWaker}]_vars

\* C12: cancel() disarms the fd and keeps it (the instance still holds its one
\* resource); after restart(d) of the cancelled running timer no poll returns
\* Ready before d has elapsed since the restart, and with d > 0 a poll does
\* return Ready unless the timer is cancelled, restarted or destroyed again.
C12_CancelKeepsReusable ==
    /\ [][ /\ (cancelled' /\ life' = "alive") =>
                 /\ fd'.open /\ fd'.remaining = 0 /\ fd'.ticks = 0
                 /\ opened' = 1 /\ closed' = 0
           /\ (ReturnsReady /\ revived) => armDur > 0 /\ elapsed >= armDur
         ]_vars
    /\ [](  (Alive /\ revived /\ armDur > 0 /\ ~cancelled)
         => <>(reported >= 1 \/ cancelled \/ ~revived \/ armDur = 0 \/ ~Alive))

\* cancelled, restarted, and Ready reported right at the new deadline
C12_Witness ==
    /\ Alive /\ revived /\ ~cancelled /\ armedBy = "restart"
    /\ result = "Ready" /\ reported = 1 /\ elapsed = armDur /\ Held = 1

\* C13: in every state in which the caller can call it, cancel() applied
\* twice leaves the timer state and the fd (armed or not, deadline,
\* expiration count) exactly as cancel() applied once does.
C13_CancelIdempotent ==
    Idle => LET once == cancel(state, fd)
                twice == cancel(once.state, once.fd)
            IN  twice = once

\* a countdown was cut short by cancel: a further cancel finds nothing to change
C13_Witness ==
    /\ Idle /\ cancelled /\ armDur > 0 /\ elapsed < armDur
    /\ cancel(state, fd) = [fd |-> fd, state |-> state]

\* C14 as stated: a poll made after Ready was reported, with no restart in
\* between, never returns (it ends in an abort).
C14_PollAfterReadyAborts == [][reported >= 1 => ~PollReturns]_vars

\* C14 amended: a poll made after Ready was reported, with no restart in
\* between, does not abort: it returns Pending and leaves the timer state and
\* the fd as they were.
C14_PollAfterReadyPending ==
    [][(reported >= 1 /\ pc # "idle") =>
          /\ life' = "alive"
          /\ pc' = "idle" => (result' = "Pending" /\ state' = state /\ fd' = fd)
      ]_vars

\* the poll after the Ready one was told "readable" and is about to read
C14_Witness == Alive /\ reported = 1 /\ pc = "read" /\ ~cancelled

\* a step on which new or restart fails its assertion
Rejected == life # "panicked" /\ life' = "panicked"

\* C15 as stated: no reachable state holds a zero pending timeout in Init or
\* a timer that restart armed with a zero deadline.
C15_ZeroRejected ==
    /\ (Alive /\ state.tag = "Init") => state.timeout > 0
    /\ (Alive /\ armedBy = "restart") => armDur > 0

\* C15 amended: in a build with debug assertions new(0) and restart(0, waker)
\* fail before any effect: no state holds Init(0) or a timer that restart
\* armed with 0, new(0) creates no fd, and a rejected restart leaves the timer
\* state and the fd unchanged.
C15_ZeroRejectedInDebug ==
    [][debug_assertions =>
          /\ state'.tag = "Init" => state'.timeout > 0
          /\ armedBy' = "restart" => armDur' > 0
          /\ Rejected => (state' = state /\ fd' = fd /\ opened' = opened)
          /\ (Rejected /\ life = "unborn") => (fd' = NoFd /\ opened' = 0)
      ]_vars

\* restart(0, waker) was rejected on a timer that is still counting down
C15_Witness ==
    /\ debug_assertions /\ life = "panicked"
    /\ state = StateRunning(FALSE) /\ fd.open /\ fd.remaining > 0

\* C16: an instance never holds more than one fd, the fds held are those
\* created and not yet closed, a living instance holds exactly the one it
\* created, and destroying it (in Init, in Running before or after cancel,
\* after Ready) closes that fd exactly once.
C16_ReleasedExactlyOnce ==
    /\ Held <= 1 /\ opened <= 1
    /\ Held = opened - closed
    /\ Alive => (Held = 1 /\ closed = 0)
    /\ life = "dropped" => (Held = 0 /\ opened = 1 /\ closed = 1)

\* destroyed while running, after a cancel
C16_Witness == life = "dropped" /\ cancelled /\ closed = 1 /\ ~fd.open

\* the task of the last poll will run again: it was woken, or its waker is
\* parked with the reactor
WakeArranged == ctx \in woken \/ io.waker = ctx

\* C17: when poll reads the fd the cached readiness edge is already cleared
\* (or the task was woken again), every poll that returned leaves its waker
\* parked or woken, and no state has an unconsumed expiration while the task
\* is suspended with neither a wake pending nor the edge on its way to the
\* parked waker.
C17_NoLostWakeup ==
    /\ (Alive /\ pc = "read") => (~io.cached \/ ctx \in woken)
    /\ (Alive /\ pc = "read") => WakeArranged
    /\ (Idle /\ state.tag = "Running") => WakeArranged
    /\ (Idle /\ state.tag = "Running" /\ fd.ticks > 0) =>
          (ctx \in woken \/ (epoll /\ io.waker = ctx))

\* the timer expired between the edge clear and the read of a poll that had
\* been told "readable": the parked waker gets the new edge
C17_Witness ==
    /\ Alive /\ pc = "read" /\ fd.ticks > 0 /\ epoll
    /\ ~io.cached /\ io.waker = ctx /\ ctx \notin woken

\* a step on which restart is called and accepted
RestartStep == nrestart' = nrestart + 1

\* C18: restart(d) on a running timer leaves the state Running with the
\* expired flag false and re-arms the same fd with deadline d and a cleared
\* expiration count, creating and closing nothing; the arming is one shot: an
\* expired timer is disarmed.
C18_RestartRearmsInPlace ==
    [][ /\ (RestartStep /\ state.tag = "Running") =>
              /\ state' = StateRunning(FALSE)
              /\ fd' = [open |-> TRUE, remaining |-> requested', ticks |-> 0]
              /\ opened' = opened /\ closed' = closed
        /\ fd'.ticks > 0 => (fd'.ticks = 1 /\ fd'.remaining = 0)
      ]_vars

\* restarted after Ready had been reported: the same fd counts down again
C18_Witness ==
    /\ Idle /\ armedBy = "restart" /\ result = "Ready" /\ reported = 0
    /\ armDur > 0 /\ fd.remaining = armDur /\ opened = 1 /\ closed = 0

\* C19: restart(d2) in Init(d1) yields Init(d2) and does not touch the fd,
\* which stays disarmed; the first poll afterwards arms with d2.
C19_RestartInInitReplacesTimeout ==
    [][ /\ (RestartStep /\ state.tag = "Init") =>
              /\ state' = StateInit(requested')
              /\ fd' = fd /\ fd.remaining = 0 /\ fd.ticks = 0
        /\ (state.tag = "Init" /\ state'.tag = "Running") =>
              /\ state.timeout = requested
              /\ fd'.remaining = requested /\ armDur' = requested
      ]_vars

\* restart replaced the timeout of a timer not yet polled, and the first poll
\* has armed with the replacement
C19_Witness ==
    /\ Alive /\ nrestart = 1 /\ armedBy = "poll" /\ pc = "idle" /\ elapsed = 0
    /\ requested = MaxDur /\ fd.remaining = MaxDur /\ result = "Pending"

\* cancel() was called, only before the first poll, and restart never
CancelledOnlyInInit == disturbed /\ nrestart = 0 /\ ~cancelled

\* C20: cancel() in Init(d) changes neither the state nor the (disarmed) fd;
\* the first poll afterwards arms with d, and with d > 0 a poll then returns
\* Ready unless the timer is cancelled, restarted or destroyed.
C20_CancelInInitNoOp ==
    /\ [][ /\ (life' = "alive" /\ pc' = "idle" /\ state'.tag = "Init") =>
                 /\ cancel(state', fd') = [fd |-> fd', state |-> state']
                 /\ state'.timeout = requested' /\ fd'.remaining = 0
           /\ (CancelledOnlyInInit /\ state.tag = "Init" /\ state'.tag = "Running") =>
                 fd'.remaining = requested /\ armDur' = requested
         ]_vars
    /\ [](  (Alive /\ state.tag = "Running" /\ CancelledOnlyInInit /\ armDur > 0)
         => <>(reported >= 1 \/ ~CancelledOnlyInInit \/ ~Alive))

\* cancelled before the first poll, then polled to Ready at the deadline
C20_Witness ==
    /\ Alive /\ CancelledOnlyInInit /\ armedBy = "poll" /\ armDur = requested
    /\ result = "Ready" /\ reported = 1 /\ elapsed = armDur

====
